---- MODULE Spec2Model ----
(***************************************************************************)
(* The EPEL 9 RPM auto downloader userscript (src/unnamed/part_000).       *)
(*                                                                         *)
(* The script runs main() once per page load.  All state that survives a   *)
(* page load lives in sessionStorage under two keys.  Strings are modelled *)
(* as sequences of one-character strings.  A page's pathname and the URLs  *)
(* built from it are kept relative to the fixed prefix                     *)
(*   https://dl.fedoraproject.org/pub/epel/9/Everything/x86_64/Packages/   *)
(* so the folder of letter n is <<"n", "/">> and the index itself is <<>>. *)
(***************************************************************************)
EXTENDS Integers, Sequences, FiniteSets, TLC

\* ------------------------------------------------------------------ bounds
\* Longest text typed into the prompt.
MaxInputLen == 3
\* Most <a> elements in one directory listing.
MaxAnchors == 2
\* Most cells in a row of the exported table, header row included.
MaxCells == 3
\* Most body rows of the exported table.
MaxRows == 2

\* ----------------------------------------------------------------- strings
Str(S, n) == UNION {[1..k -> S] : k \in 0..n}

\* Characters the user can type: a letter in both cases, two characters that
\* are regular-expression syntax, the separator and white space.
InputChars == {"n", "N", "+", ".", ",", " "}
Inputs == Str(InputChars, MaxInputLen)

SetMin(S) == CHOOSE x \in S : \A y \in S : x <= y
SetMax(S) == CHOOSE x \in S : \A y \in S : y <= x

\* split(',', 2): a split that stops at the first separator
splitOnce(s) ==
  LET commas == {i \in 1..Len(s) : s[i] = ","}
  IN IF commas = {} THEN <<s>>
     ELSE LET i == SetMin(commas)
          IN <<SubSeq(s, 1, i - 1), SubSeq(s, i + 1, Len(s))>>

\* String.prototype.split(',')
RECURSIVE split(_)
split(s) ==
  LET commas == {i \in 1..Len(s) : s[i] = ","}
  IN IF commas = {} THEN <<s>>
     ELSE LET i == SetMin(commas)
          IN <<SubSeq(s, 1, i - 1)>> \o split(SubSeq(s, i + 1, Len(s)))

\* trim() that trims nothing
trimNothing(s) == s

\* String.prototype.trim()
trim(s) ==
  LET ns == {i \in 1..Len(s) : s[i] # " "}
  IN IF ns = {} THEN <<>> ELSE SubSeq(s, SetMin(ns), SetMax(ns))

\* input.split(',').map(p => p.trim()).filter(Boolean)
ParsePkgs(text) ==
  LET tokens == split(text)
      trimmed == [k \in 1..Len(tokens) |-> trim(tokens[k])]
  IN SelectSeq(trimmed, LAMBDA p : p # <<>>)

\* String.prototype.toLowerCase() on one character
toLowerCase(c) ==
  CASE c = "N" -> "n" [] c = "D" -> "d" [] c = "R" -> "r"
    [] c = "P" -> "p" [] c = "M" -> "m" [] OTHER -> c

\* Canonicalize of a character under the regular expression's i flag
Canonicalize(c) ==
  CASE c = "n" -> "N" [] c = "d" -> "D" [] c = "r" -> "R"
    [] c = "p" -> "P" [] c = "m" -> "M" [] OTHER -> c

\* the test made against the index's own path, which every page passes
startsWithBase(s, p) == TRUE

\* String.prototype.startsWith
startsWith(s, p) == Len(p) <= Len(s) /\ SubSeq(s, 1, Len(p)) = p

\* Number.prototype.toString() of a non-negative integer
Digit(d) == <<"0", "1", "2", "3", "4", "5", "6", "7", "8", "9">>[d + 1]
RECURSIVE toString(_)
toString(n) ==
  IF n < 10 THEN <<Digit(n)>> ELSE toString(n \div 10) \o <<Digit(n % 10)>>

\* parseInt(s, 10) of a string of decimal digits
DigitVal(c) == CHOOSE d \in 0..9 : Digit(d) = c
RECURSIVE parseInt(_)
parseInt(s) ==
  IF Len(s) = 1 THEN DigitVal(s[1])
  ELSE 10 * parseInt(SubSeq(s, 1, Len(s) - 1)) + DigitVal(s[Len(s)])

\* JSON.stringify of an array of strings that hold no quote or backslash
RECURSIVE JSONItems(_)
JSONItems(pkgs) ==
  IF pkgs = <<>> THEN <<>>
  ELSE <<"\"">> \o Head(pkgs) \o <<"\"">>
       \o (IF Len(pkgs) > 1 THEN <<",">> ELSE <<>>) \o JSONItems(Tail(pkgs))
JSONstringify(pkgs) == <<"[">> \o JSONItems(pkgs) \o <<"]">>

\* JSON.parse of such a text: the strings between successive pairs of quotes
RECURSIVE JSONStrings(_)
JSONStrings(t) ==
  LET q == {i \in 1..Len(t) : t[i] = "\""}
  IN IF q = {} THEN <<>>
     ELSE LET a == SetMin(q)
              b == SetMin(q \ {a})
          IN <<SubSeq(t, a + 1, b - 1)>> \o JSONStrings(SubSeq(t, b + 1, Len(t)))
JSONparse(t) == JSONStrings(t)

\* ------------------------------------------------------ regular expression
\* new RegExp(`^${pkg}[-].*\\.rpm$`, 'i'): pkg is spliced into the pattern
\* unescaped, so "." in it is the wildcard and "+" a quantifier.  The
\* constructor throws SyntaxError (nothing to repeat) when a "+" has no atom
\* before it or follows another quantifier.
RegExpThrows(pkg) ==
  \/ pkg[1] = "+"
  \/ \E i \in 1..(Len(pkg) - 1) : pkg[i] = "+" /\ pkg[i + 1] = "+"

\* The atoms of the pkg part of a pattern that compiled.
RECURSIVE Atoms(_)
Atoms(p) ==
  IF p = <<>> THEN <<>>
  ELSE LET plus == Len(p) >= 2 /\ p[2] = "+"
       IN <<[c |-> p[1], plus |-> plus]>>
          \o Atoms(SubSeq(p, IF plus THEN 3 ELSE 2, Len(p)))

AtomMatches(a, ch) == a.c = "." \/ Canonicalize(a.c) = Canonicalize(ch)

\* [-].*\.rpm$ against s from position j on
SuffixMatches(s, j) ==
  /\ j <= Len(s)
  /\ s[j] = "-"
  /\ Len(s) - 3 >= j + 1
  /\ s[Len(s) - 3] = "."
  /\ Canonicalize(s[Len(s) - 2]) = "R"
  /\ Canonicalize(s[Len(s) - 1]) = "P"
  /\ Canonicalize(s[Len(s)]) = "M"

\* atoms k.. and then the suffix against s from position j on (backtracking)
RECURSIVE MatchFrom(_, _, _, _)
MatchFrom(atoms, k, s, j) ==
  IF k > Len(atoms) THEN SuffixMatches(s, j)
  ELSE /\ j <= Len(s)
       /\ AtomMatches(atoms[k], s[j])
       /\ \/ MatchFrom(atoms, k + 1, s, j + 1)
          \/ atoms[k].plus /\ MatchFrom(atoms, k, s, j + 1)

\* regex.test(href)
test(pkg, href) == MatchFrom(Atoms(pkg), 1, href, 1)

\* ----------------------------------------------------------- environment
\* href attributes a directory listing can carry; <<>> is an <a> without one.
NoHref == <<>>
Hrefs == { NoHref,
           <<"n", "-", "1", ".", "r", "p", "m">>,
           <<"N", "-", "d", ".", "R", "P", "M">>,
           <<"n", "n", "-", "1", ".", "r", "p", "m">> }
Listings == Str(Hrefs, MaxAnchors)

\* Pages of the index the user may have open when the script is invoked.
StartPages == { <<>>, <<"n", "/">> }

\* The pathname the browser gives a page loaded from url: the URL parser
\* drops a "." path segment.
URLPathname(url) ==
  IF Len(url) >= 2 /\ url[1] = "." /\ url[2] = "/"
  THEN SubSeq(url, 3, Len(url)) ELSE url

\* --------------------------------------------------------- sessionStorage
PACKAGES_KEY == "epel9_rpm_packages"
INDEX_KEY == "epel9_rpm_index"

setItem(st, k, v) == [x \in DOMAIN st \cup {k} |-> IF x = k THEN v ELSE st[x]]
removeItem(st, k) == [x \in DOMAIN st \ {k} |-> st[x]]
hasItem(st, k) == k \in DOMAIN st

\* ------------------------------------- get-epo-packages-list.js (export)
\* innerText of a body cell and of a header cell
CellTexts == { <<>>, <<"x">>, <<" ", "y">> }
HeaderTexts == { <<>>, <<"A">>, <<"B", " ">> }

\* A document without the two tables, and the documents with both.
NoDocument == [table |-> FALSE, headerRow |-> FALSE, headerCells |-> <<>>,
           bodyRows |-> <<>>]
Documents ==
  { [table |-> t, headerRow |-> h, headerCells |-> <<>>, bodyRows |-> <<>>] :
      t \in BOOLEAN, h \in BOOLEAN }
  \cup
  { [table |-> TRUE, headerRow |-> TRUE, headerCells |-> hc, bodyRows |-> br] :
      hc \in Str(HeaderTexts, MaxCells),
      br \in Str(Str(CellTexts, MaxCells), MaxRows) }

\* Array.prototype.join
RECURSIVE join(_, _)
join(strs, sep) ==
  IF strs = <<>> THEN <<>>
  ELSE IF Len(strs) = 1 THEN strs[1]
  ELSE strs[1] \o sep \o join(Tail(strs), sep)

\* lines 8-10: the header texts, trimmed, the empty ones removed
headers(hc) ==
  SelectSeq([k \in 1..Len(hc) |-> trim(hc[k])], LAMBDA text : text # <<>>)

\* line 13: a row's cell texts, trimmed, without the first
cells(row) ==
  LET texts == [k \in 1..Len(row) |-> trim(row[k])]
  IN SubSeq(texts, 2, Len(texts))

\* line 15: the key cell i is stored under; headers[i] is undefined past
\* the last header and the key is then the text "undefined"
KeyOf(hs, i) == IF i <= Len(hs) THEN hs[i] ELSE <<"undefined">>

\* line 15: Object.fromEntries, a later entry replacing an earlier one of
\* the same key
fromEntries(hs, cs) ==
  [key \in {KeyOf(hs, i) : i \in 1..Len(cs)} |->
     cs[SetMax({i \in 1..Len(cs) : KeyOf(hs, i) = key})]]

\* line 16: Object.values(row).some(val => val)
someValue(obj) == \E key \in DOMAIN obj : obj[key] # <<>>

\* lines 12-16
data(hs, rows) ==
  SelectSeq([k \in 1..Len(rows) |-> fromEntries(hs, cells(rows[k]))],
            someValue)

\* line 21: headers.map(header => row[header] || '').join(',')
dataLine(hs, obj) ==
  join([j \in 1..Len(hs) |->
          IF hs[j] \in DOMAIN obj THEN obj[hs[j]] ELSE <<>>],
       <<",">>)

\* lines 19-22
toCsv(hs, objs) ==
  join(<<join(hs, <<",">>)>> \o [k \in 1..Len(objs) |-> dataLine(hs, objs[k])],
       <<"\n">>)


\* ------------------------------------------------------------------ state
VARIABLES
  sessionStorage, \* the tab's session storage: key -> string
  location,       \* window.location.pathname of the loaded page
  anchors,        \* href attributes of the page's <a> elements in document
                  \* order, as this invocation read them at line 63 (<<>>
                  \* while it has not read them)
  pc,             \* "loaded": main() is about to run; "sleeping": main() is
                  \* suspended in sleep(3000); "unloading": a navigation or
                  \* reload was issued; "halted": main() is over, nothing
                  \* is pending
  nextUrl,        \* the URL the issued navigation or reload loads
  events,         \* what this invocation did so far, in order
  downloads,      \* per worklist index, the downloads triggered in this walk
  hadTarget,      \* per worklist index, whether the listing its fetch step
                  \* saw held a link matching the item's pattern
  fetched,        \* indices a fetch step has handled in this walk, in order
  lastDownload,   \* rpmUrl of the latest download
  finished,       \* the walk reached the "All packages processed!" branch
  interrupted,    \* "no" when the script's own navigation or reload loaded
                  \* the page; else what the user's reload cut short: the
                  \* pc of that moment
  document,       \* the document the table export runs on: whether it holds
                  \* #PackageTable_dataTable and #PackageTable_headerTable,
                  \* the innerText of the header cells and of the cells of
                  \* each body row
  csv,            \* the text of the Blob the table export built
  exportPc,       \* "idle": the table export is not in play; "ready": it
                  \* is about to run; "error": it logged and returned;
                  \* "downloaded": it clicked the data.csv download
  prompted,       \* what prompt() returned in this invocation: "text",
                  \* "cancel" (null), or "none" when it was not called
  input           \* the text prompt() returned in this invocation

vars == <<sessionStorage, location, anchors, pc, nextUrl, events, downloads,
          hadTarget, fetched, lastDownload, finished, interrupted,
          prompted, input, document, csv, exportPc>>

\* what the table export reads and writes
exportVars == <<document, csv, exportPc>>
\* what the downloader reads and writes
walkerVars == <<sessionStorage, location, anchors, pc, nextUrl, events,
                downloads, hadTarget, fetched, lastDownload, finished,
                interrupted, prompted, input>>

\* ----------------------------------------------------------------- main()
\* What one run of main() leaves behind, up to its return or its await.
Result(st, ev, p, url, kind, index, rpmUrl) ==
  [storage |-> st, events |-> ev, pc |-> p, nextUrl |-> url, kind |-> kind,
   index |-> index, rpmUrl |-> rpmUrl]

\* lines 26-27 and 31-32: alert and return
NoInput(st, ev) ==
  Result(st, ev \o <<"alert">>, "halted", <<>>, "noinput", 0, <<>>)

\* the completion branch forgetting the cursor key
AllProcessedKeepsIndex(st, ev) ==
  Result(removeItem(st, PACKAGES_KEY),
         ev \o <<"alert", "removeItem:packages">>,
         "halted", <<>>, "done", 0, <<>>)

\* the completion branch reloading like the other branches do
AllProcessedReloads(st, ev) ==
  Result(removeItem(removeItem(st, PACKAGES_KEY), INDEX_KEY),
         ev \o <<"alert", "removeItem:packages", "removeItem:index",
                 "reload">>,
         "unloading", <<>>, "done", 0, <<>>)

\* lines 42-47
AllProcessed(st, ev) ==
  Result(removeItem(removeItem(st, PACKAGES_KEY), INDEX_KEY),
         ev \o <<"alert", "removeItem:packages", "removeItem:index">>,
         "halted", <<>>, "done", 0, <<>>)

\* the redirect starting the walk over
RedirectResetsCursor(st, ev, expectedPath) ==
  Result(setItem(st, INDEX_KEY, toString(0)),
         ev \o <<"log", "navigate">>, "unloading", expectedPath,
         "navigate", 0, <<>>)

\* lines 55-60
Redirect(st, ev, expectedPath) ==
  Result(st, ev \o <<"log", "navigate">>, "unloading", expectedPath,
         "navigate", 0, <<>>)

\* an exception leaves main(): the promise rejects and nothing else runs
Throws(st, ev) ==
  Result(st, ev \o <<"throw">>, "halted", <<>>, "throw", 0, <<>>)

\* the not-found branch storing the cursor it read
NotFoundStuck(st, ev, index, href) ==
  Result(setItem(st, INDEX_KEY, toString(index)),
         ev \o <<"warn", "setItem:index", "reload">>,
         "unloading", href, "notfound", index, <<>>)

\* the not-found branch dropping the item from the stored list
NotFoundShiftsList(st, ev, index, href) ==
  Result(setItem(setItem(st, PACKAGES_KEY,
                         JSONstringify(Tail(JSONparse(st[PACKAGES_KEY])))),
                 INDEX_KEY, toString(index + 1)),
         ev \o <<"warn", "setItem:index", "reload">>,
         "unloading", href, "notfound", index, <<>>)

\* the not-found branch advancing the cursor by two
NotFoundSkips(st, ev, index, href) ==
  Result(setItem(st, INDEX_KEY, toString(index + 2)),
         ev \o <<"warn", "setItem:index", "reload">>,
         "unloading", href, "notfound", index, <<>>)

\* lines 69-74
NotFound(st, ev, index, href) ==
  Result(setItem(st, INDEX_KEY, toString(index + 1)),
         ev \o <<"warn", "setItem:index", "reload">>,
         "unloading", href, "notfound", index, <<>>)

\* the download branch advancing the cursor by two
DownloadSkips(st, ev, index, rpmUrl) ==
  Result(setItem(st, INDEX_KEY, toString(index + 2)),
         ev \o <<"log", "download", "setItem:index", "sleep">>,
         "sleeping", <<>>, "download", index, rpmUrl)

\* the download branch storing the cursor it read
DownloadNoAdvance(st, ev, index, rpmUrl) ==
  Result(setItem(st, INDEX_KEY, toString(index)),
         ev \o <<"log", "download", "setItem:index", "sleep">>,
         "sleeping", <<>>, "download", index, rpmUrl)

\* the download branch reloading without the pause
DownloadReloadsAtOnce(st, ev, index, rpmUrl) ==
  Result(setItem(st, INDEX_KEY, toString(index + 1)),
         ev \o <<"log", "download", "setItem:index", "reload">>,
         "unloading", <<"n", "/">>, "download", index, rpmUrl)

\* lines 76-90, up to the await
Download(st, ev, index, rpmUrl) ==
  Result(setItem(st, INDEX_KEY, toString(index + 1)),
         ev \o <<"log", "download", "setItem:index", "sleep">>,
         "sleeping", <<>>, "download", index, rpmUrl)

\* the filter keeping every href, matching or not
matchedLinksAny(pkg, as) == SelectSeq(as, LAMBDA href : href # NoHref)

\* the filter giving its matches last first
matchedLinksLastFirst(pkg, as) ==
  LET m == SelectSeq(as, LAMBDA href : href # NoHref /\ test(pkg, href))
  IN [k \in 1..Len(m) |-> m[Len(m) + 1 - k]]

\* lines 63-67
matchedLinks(pkg, as) ==
  SelectSeq(as, LAMBDA href : href # NoHref /\ test(pkg, href))

\* lines 39-91 with the storage st, on the page at currentPath listing as
Walk(st, ev, currentPath, as) ==
  LET packages == JSONparse(st[PACKAGES_KEY])
  IN IF ~hasItem(st, INDEX_KEY) THEN Throws(st, ev)
     ELSE LET index == parseInt(st[INDEX_KEY])
          IN IF index >= Len(packages) THEN AllProcessed(st, ev)
             ELSE LET pkg == packages[index + 1]
                      firstLetter == toLowerCase(pkg[1])
                      expectedPath == <<firstLetter, "/">>
                  IN IF ~startsWith(currentPath, expectedPath)
                     THEN Redirect(st, ev, expectedPath)
                     ELSE IF RegExpThrows(pkg) THEN Throws(st, ev)
                     ELSE LET links == matchedLinks(pkg, as)
                          IN IF Len(links) = 0
                             THEN NotFound(st, ev, index, currentPath)
                             ELSE Download(st, ev, index,
                                           currentPath \o links[1])

\* lines 23-37 and then the rest of main(); cancelled: prompt returned null
Ask(st, cancelled, text, currentPath, as) ==
  IF cancelled \/ text = <<>> THEN NoInput(st, <<"prompt">>)
  ELSE LET pkgs == ParsePkgs(text)
       IN IF Len(pkgs) = 0 THEN NoInput(st, <<"prompt">>)
          ELSE Walk(setItem(setItem(st, PACKAGES_KEY, JSONstringify(pkgs)),
                            INDEX_KEY, toString(0)),
                    <<"prompt", "setItem:packages", "setItem:index", "alert">>,
                    currentPath, as)

\* The listing holds a link that is the item's pattern: stated on the
\* listing, apart from the code's filter.
HasTarget(pkg, as) ==
  \E k \in 1..Len(as) : as[k] # NoHref /\ test(pkg, as[k])

\* main() run with the storage st on the page at currentPath gets as far as
\* line 63, where it reads the page's anchors.
ReadsAnchors(st, currentPath) ==
  /\ hasItem(st, PACKAGES_KEY)
  /\ hasItem(st, INDEX_KEY)
  /\ LET packages == JSONparse(st[PACKAGES_KEY])
         index == parseInt(st[INDEX_KEY])
     IN /\ index < Len(packages)
        /\ startsWith(currentPath, <<toLowerCase(packages[index + 1][1]), "/">>)

\* The state after a run of main() that read the anchors as and ended as r.
Apply(r, as) ==
  LET created == ~hasItem(sessionStorage, PACKAGES_KEY)
                 /\ hasItem(r.storage, PACKAGES_KEY)
      n == IF hasItem(r.storage, PACKAGES_KEY)
           THEN Len(JSONparse(r.storage[PACKAGES_KEY])) ELSE 0
      dl0 == IF created THEN [i \in 1..n |-> 0] ELSE downloads
      ht0 == IF created THEN [i \in 1..n |-> FALSE] ELSE hadTarget
      f0 == IF created THEN <<>> ELSE fetched
      fetch == r.kind \in {"notfound", "download"}
      i == r.index + 1
  IN /\ sessionStorage' = r.storage
     /\ events' = r.events
     /\ pc' = r.pc
     /\ nextUrl' = r.nextUrl
     /\ downloads' = IF r.kind = "download"
                     THEN [dl0 EXCEPT ![i] = @ + 1] ELSE dl0
     /\ hadTarget' = IF fetch
                     THEN [ht0 EXCEPT ![i] =
                             HasTarget(JSONparse(r.storage[PACKAGES_KEY])[i],
                                       as)]
                     ELSE ht0
     /\ fetched' = IF fetch THEN Append(f0, r.index) ELSE f0
     /\ lastDownload' = IF r.kind = "download" THEN r.rpmUrl ELSE lastDownload
     /\ finished' = IF r.kind = "done" THEN TRUE
                    ELSE IF created THEN FALSE ELSE finished
     /\ anchors' = as
     /\ UNCHANGED <<location, interrupted>>

\* The storage main() works on from line 39 on, after the prompt if any.
Stored(st, cancelled, text) ==
  IF cancelled \/ ParsePkgs(text) = <<>> THEN st
  ELSE setItem(setItem(st, PACKAGES_KEY, JSONstringify(ParsePkgs(text))),
               INDEX_KEY, toString(0))

\* The anchors the page can show main() when it reads them; <<>> stands for
\* a run that never reads them.
Document(st, currentPath) ==
  IF ReadsAnchors(st, currentPath) THEN Listings ELSE {<<>>}

\* The userscript manager runs the script on the loaded page: main(), from
\* its first line to its return or to the await of sleep(3000).
Main ==
  /\ pc = "loaded"
  /\ IF hasItem(sessionStorage, PACKAGES_KEY)
     THEN /\ \E as \in Document(sessionStorage, location) :
               Apply(Walk(sessionStorage, <<>>, location, as), as)
          /\ UNCHANGED <<prompted, input>>
     ELSE \E text \in Inputs :
            \E cancelled \in (IF text = <<>> THEN BOOLEAN ELSE {FALSE}) :
              /\ \E as \in Document(Stored(sessionStorage, cancelled, text),
                                    location) :
                   Apply(Ask(sessionStorage, cancelled, text, location, as),
                         as)
              /\ prompted' = IF cancelled THEN "cancel" ELSE "text"
              /\ input' = text
  /\ UNCHANGED exportVars

\* line 91: the timer of sleep(3000) fired and main() resumes
Reload ==
  /\ pc = "sleeping"
  /\ pc' = "unloading"
  /\ nextUrl' = location
  /\ events' = Append(events, "reload")
  /\ UNCHANGED <<sessionStorage, location, anchors, downloads, hadTarget,
                 fetched, lastDownload, finished, interrupted, prompted,
                 input>>
  /\ UNCHANGED exportVars

\* The browser carries out the navigation or reload the script issued and
\* the script is invoked on the new page.
PageLoad ==
  /\ pc = "unloading"
  /\ location' = URLPathname(nextUrl)
  /\ anchors' = <<>>
  /\ pc' = "loaded"
  /\ events' = <<>>
  /\ interrupted' = "no"
  /\ prompted' = "none"
  /\ input' = <<>>
  /\ UNCHANGED <<sessionStorage, nextUrl, downloads, hadTarget, fetched,
                 lastDownload, finished>>
  /\ UNCHANGED exportVars

\* The user reloads the tab or opens another page of the index in it, at
\* any moment main() is not running: the walk is interrupted or re-entered.
\* Whatever the old page had pending is gone with it.  With no worklist
\* stored there is no walk to continue, and the record of the past walk
\* (downloads, hadTarget, fetched, lastDownload) is closed.
UserInvoke ==
  /\ pc \in {"halted", "sleeping", "unloading"}
  /\ interrupted' = pc
  /\ prompted' = "none"
  /\ input' = <<>>
  /\ \E path \in StartPages \cup {location} : location' = path
  /\ anchors' = <<>>
  /\ pc' = "loaded"
  /\ events' = <<>>
  /\ nextUrl' = <<>>
  /\ IF hasItem(sessionStorage, PACKAGES_KEY)
     THEN UNCHANGED <<downloads, hadTarget, fetched, lastDownload>>
     ELSE /\ downloads' = <<>>
          /\ hadTarget' = <<>>
          /\ fetched' = <<>>
          /\ lastDownload' = <<>>
  /\ UNCHANGED <<sessionStorage, finished>>
  /\ UNCHANGED exportVars

Init ==
  /\ sessionStorage = <<>>
  /\ location \in StartPages
  /\ anchors = <<>>
  /\ pc = "loaded"
  /\ nextUrl = <<>>
  /\ events = <<>>
  /\ downloads = <<>>
  /\ hadTarget = <<>>
  /\ fetched = <<>>
  /\ lastDownload = <<>>
  /\ finished = FALSE
  /\ interrupted = "no"
  /\ prompted = "none"
  /\ input = <<>>
  /\ document = NoDocument
  /\ csv = <<>>
  /\ exportPc = "idle"

Next == Main \/ Reload \/ PageLoad \/ UserInvoke

Spec == Init /\ [][Next]_vars

\* Every navigation or reload the script issues is carried out, every loaded
\* page runs main(), every timer fires, and the user leaves the tab alone.
LiveNext == Main \/ Reload \/ PageLoad

LiveSpec ==
  Init /\ [][LiveNext]_vars
       /\ WF_vars(Main) /\ WF_vars(Reload) /\ WF_vars(PageLoad)

\* The whole script, lines 1-32.
Export ==
  /\ exportPc = "ready"
  /\ IF ~document.table \/ ~document.headerRow
     THEN /\ exportPc' = "error"
          /\ csv' = <<>>
     ELSE /\ exportPc' = "downloaded"
          /\ csv' = toCsv(headers(document.headerCells),
                          data(headers(document.headerCells),
                               document.bodyRows))
  /\ UNCHANGED document
  /\ UNCHANGED walkerVars

\* The script is pasted into the console of a page; the downloader is not
\* in play.
ExportInit ==
  /\ document \in Documents
  /\ csv = <<>>
  /\ exportPc = "ready"
  /\ sessionStorage = <<>>
  /\ location = <<>>
  /\ anchors = <<>>
  /\ pc = "halted"
  /\ nextUrl = <<>>
  /\ events = <<>>
  /\ downloads = <<>>
  /\ hadTarget = <<>>
  /\ fetched = <<>>
  /\ lastDownload = <<>>
  /\ finished = FALSE
  /\ interrupted = "no"
  /\ prompted = "none"
  /\ input = <<>>

ExportNext == Export

ExportSpec == ExportInit /\ [][ExportNext]_vars

\* ------------------------------------------------------------- properties
HasWorklist == hasItem(sessionStorage, PACKAGES_KEY)
HasCursor == hasItem(sessionStorage, INDEX_KEY)
Worklist == JSONparse(sessionStorage[PACKAGES_KEY])
Cursor == parseInt(sessionStorage[INDEX_KEY])
Count(ev, e) == Cardinality({k \in 1..Len(ev) : ev[k] = e})
Did(e) == \E k \in 1..Len(events) : events[k] = e
\* This invocation took a fetch step: it found no target, or downloaded one.
Fetching == Did("warn") \/ Did("download")

\* C1: a fetch step taken with persisted cursor c leaves the persisted cursor
\* at c + 1, whether a target was downloaded or none was found (c is 0 when
\* the same invocation has just created the worklist), and while a worklist
\* stays persisted the cursor never decreases.
C1_CursorAdvancesByOne ==
  [][ /\ (pc = "loaded" /\ Fetching')
         => /\ HasCursor'
            /\ Cursor' = (IF HasCursor THEN Cursor ELSE 0) + 1
            /\ Cursor' = fetched'[Len(fetched')] + 1
      /\ (HasWorklist /\ HasWorklist') => Cursor' >= Cursor ]_vars

C1_Witness ==
  /\ HasWorklist /\ Cursor = 2
  /\ fetched = <<0, 1>>
  /\ downloads = <<1, 0>>

\* C2: with every navigation and reload followed by a new invocation, a
\* walk is driven to its end: while a worklist is persisted the walker has a
\* next step, be it running main(), the timer's reload or a page load.  (The
\* walk cannot reach the "All packages processed!" branch from a state that
\* has a worklist and no next step.)
C2_WalkNeverStuck == HasWorklist => ENABLED LiveNext

\* C3: within a walk every index is downloaded exactly once if the listing
\* its fetch step saw held a matching target and never otherwise, and a walk
\* that completed has fetched every index.
C3_DownloadOncePerTarget ==
  /\ \A i \in DOMAIN downloads :
       downloads[i] = IF (\E k \in DOMAIN fetched : fetched[k] = i - 1)
                         /\ hadTarget[i]
                      THEN 1 ELSE 0
  /\ finished => \A i \in DOMAIN downloads :
                   \E k \in DOMAIN fetched : fetched[k] = i - 1

C3_Witness ==
  /\ finished
  /\ hadTarget = <<FALSE, TRUE>>
  /\ downloads = <<0, 1>>

\* C4: while a worklist is persisted, the indices fetched so far are exactly
\* 0 .. cursor-1 in that order, and a fetch step handles the index right
\* after the ones already fetched.
C4_FetchedInWorklistOrder ==
  /\ [](HasWorklist => /\ Cursor <= Len(Worklist)
                       /\ fetched = [k \in 1..Cursor |-> k - 1])
  /\ [][(pc = "loaded" /\ Fetching')
          => fetched' = Append(IF HasWorklist THEN fetched ELSE <<>>,
                               IF HasWorklist THEN Len(fetched) ELSE 0)]_vars

C4_Witness ==
  /\ HasWorklist
  /\ Worklist = << <<"n">>, <<"N">> >>
  /\ fetched = <<0, 1>>
  /\ pc = "loaded"

\* C5: when the user re-invokes the script in the middle of a walk (also
\* during the pause after a download), the persisted cursor is the number of
\* items a fetch step has handled, the downloads already made are not made
\* again in what follows, and the items not yet fetched have no download.
C5_ResumeAtPersistedCursor ==
  /\ []((interrupted # "no" /\ HasWorklist)
          => /\ Cursor = Len(fetched)
             /\ \A i \in DOMAIN downloads :
                  /\ downloads[i] <= 1
                  /\ (i > Cursor => downloads[i] = 0))
  /\ [][(HasWorklist /\ HasWorklist')
          => /\ \A i \in DOMAIN downloads :
                  downloads[i] = 1 => downloads'[i] = 1
             /\ Len(fetched') >= Len(fetched)]_vars

C5_Witness ==
  /\ interrupted = "sleeping"
  /\ HasWorklist
  /\ fetched = <<0, 1>>
  /\ downloads = <<1, 1>>

\* C6: when prompt() is cancelled or returns a text of nothing but commas
\* and white space (the empty text included), the invocation alerts once
\* and stops: nothing is stored, nothing is navigated, reloaded or
\* downloaded.
C6_NoInputNoEffect ==
  (prompted = "cancel"
   \/ (prompted = "text" /\ \A k \in DOMAIN input : input[k] \in {",", " "}))
    => /\ DOMAIN sessionStorage = {}
       /\ events = <<"prompt", "alert">>
       /\ pc = "halted"
       /\ nextUrl = <<>>

C6_Witness ==
  /\ prompted = "text"
  /\ input = <<" ", ",", " ">>
  /\ events = <<"prompt", "alert">>

C8_DoneClearsState ==
  [][(pc = "loaded" /\ HasWorklist /\ HasCursor /\ Cursor >= Len(Worklist))
       => /\ DOMAIN sessionStorage' = {}
          /\ Count(events', "alert") = 1
          /\ ~(Did("navigate") \/ Did("reload") \/ Did("download")
               \/ Did("prompt"))'
          /\ pc' = "halted"
          /\ downloads' = downloads]_vars

C8_Witness ==
  /\ finished
  /\ events = <<"alert", "removeItem:packages", "removeItem:index">>
  /\ DOMAIN sessionStorage = {}
  /\ Len(fetched) = 2

\* C9 as claimed: an invocation after the walk reached DONE does nothing at
\* all and leaves the storage cleared.
C9_DoneIsIdempotent ==
  [][(finished /\ pc = "loaded")
       => /\ events' = <<>>
          /\ DOMAIN sessionStorage' = {}]_vars

\* C9 amended: once the walk reached DONE the storage stays cleared and
\* nothing is navigated, reloaded or downloaded until a new list is entered,
\* but an invocation in that state does prompt for a list again.
C9_DoneStaysClearedButPrompts ==
  /\ [](finished => /\ DOMAIN sessionStorage = {}
                    /\ pc \in {"halted", "loaded"}
                    /\ ~(Did("navigate") \/ Did("reload") \/ Did("download")))
  /\ [][(finished /\ pc = "loaded") => events'[1] = "prompt"]_vars

C9_Witness ==
  /\ finished
  /\ interrupted = "halted"
  /\ events = <<"prompt", "alert">>

\* C10: the URL downloaded is the page's URL followed by the first href, in
\* document order, that the item's pattern matches.
C10_FirstMatchWins ==
  Did("download")
    => LET pkg == Worklist[fetched[Len(fetched)] + 1]
           hit(k) == anchors[k] # NoHref /\ test(pkg, anchors[k])
       IN \E k \in DOMAIN anchors :
            /\ hit(k)
            /\ \A j \in 1..(k - 1) : ~hit(j)
            /\ lastDownload = location \o anchors[k]

C10_Witness ==
  /\ Did("download")
  /\ anchors = << <<"N", "-", "d", ".", "R", "P", "M">>,
                  <<"n", "-", "1", ".", "r", "p", "m">> >>
  /\ lastDownload = <<"n", "/", "N", "-", "d", ".", "R", "P", "M">>

\* The tokens of a text read one character at a time: a comma ends a token,
\* a token loses the blanks at its ends, a token left empty is dropped.
RECURSIVE StripLeft(_)
StripLeft(s) ==
  IF s # <<>> /\ Head(s) = " " THEN StripLeft(Tail(s)) ELSE s
RECURSIVE StripRight(_)
StripRight(s) ==
  IF s # <<>> /\ s[Len(s)] = " "
  THEN StripRight(SubSeq(s, 1, Len(s) - 1)) ELSE s
Flush(acc, cur) ==
  LET t == StripRight(StripLeft(cur))
  IN IF t = <<>> THEN acc ELSE Append(acc, t)
RECURSIVE Scan(_, _, _)
Scan(text, cur, acc) ==
  IF text = <<>> THEN Flush(acc, cur)
  ELSE IF Head(text) = "," THEN Scan(Tail(text), <<>>, Flush(acc, cur))
  ELSE Scan(Tail(text), Append(cur, Head(text)), acc)
Tokens(text) == Scan(text, <<>>, <<>>)

\* The folder of the index an item belongs to.
FolderOf(pkg) == <<toLowerCase(pkg[1]), "/">>
\* The page at path lies in that folder.
InFolder(path, pkg) ==
  /\ Len(path) >= 2
  /\ path[1] = toLowerCase(pkg[1])
  /\ path[2] = "/"

\* C11: after a prompt answered with a text that holds a token, the stored
\* worklist is the text's comma-separated tokens, trimmed, the empty ones
\* dropped, in the order typed, and the stored cursor is 0 (1 once the same
\* invocation has gone on to fetch item 0).
C11_WorklistIsTheTokens ==
  (prompted = "text" /\ Tokens(input) # <<>>)
    => /\ HasWorklist /\ HasCursor
       /\ Worklist = Tokens(input)
       /\ Cursor = IF Fetching THEN 1 ELSE 0

C11_Witness ==
  /\ prompted = "text"
  /\ input = <<" ", "n", ",">>
  /\ Worklist = << <<"n">> >>
  /\ Cursor = 0

\* C12: an invocation that finds the page outside the folder of the current
\* item issues the navigation to that folder and ends; the stored worklist
\* and cursor are as it found them and no download is triggered.
C12_NavigateChangesNothing ==
  [][(/\ pc = "loaded" /\ HasWorklist /\ HasCursor
      /\ Cursor < Len(Worklist)
      /\ ~InFolder(location, Worklist[Cursor + 1]))
       => /\ sessionStorage' = sessionStorage
          /\ events' = <<"log", "navigate">>
          /\ pc' = "unloading"
          /\ nextUrl' = FolderOf(Worklist[Cursor + 1])
          /\ downloads' = downloads
          /\ fetched' = fetched]_vars

C12_Witness ==
  /\ events = <<"log", "navigate">>
  /\ HasWorklist /\ Cursor = 1
  /\ downloads = <<1, 0>>

\* C13: from the step that stores the worklist to the step that clears it,
\* no step changes the stored worklist.
C13_WorklistImmutable ==
  [][(HasWorklist /\ HasWorklist')
       => sessionStorage'[PACKAGES_KEY] = sessionStorage[PACKAGES_KEY]]_vars

C13_Witness ==
  /\ HasWorklist
  /\ Len(Worklist) = 2
  /\ fetched = <<0, 1>>
  /\ hadTarget = <<TRUE, FALSE>>

\* C14: an invocation that finds the page in the folder of the current item
\* ends as found or as not-found, with the cursor advanced and a restart
\* scheduled, whatever the item.
C14_FetchNeverAborts ==
  [][(/\ pc = "loaded" /\ HasWorklist /\ HasCursor
      /\ Cursor < Len(Worklist)
      /\ InFolder(location, Worklist[Cursor + 1]))
       => /\ Fetching'
          /\ Cursor' = Cursor + 1
          /\ pc' \in {"sleeping", "unloading"}]_vars

\* C15: the page loaded by a navigation lies in the folder the navigation
\* was issued for, so the next invocation does not navigate again.
C15_NavigationArrives ==
  [][(pc = "unloading" /\ Did("navigate"))
       => startsWith(location', nextUrl)]_vars

\* C16: a fetch step, and with it any download, happens only on a page in
\* the folder of the item's lowercased first character; on any other page
\* the invocation navigates and does not read the page's links.
C16_FetchOnlyInFolder ==
  /\ [](Fetching => InFolder(location, Worklist[fetched[Len(fetched)] + 1]))
  /\ [](Did("navigate") => (~Fetching /\ anchors = <<>>))
  /\ [][(/\ pc = "loaded" /\ HasWorklist /\ HasCursor
         /\ Cursor < Len(Worklist)
         /\ ~InFolder(location, Worklist[Cursor + 1]))
          => (Did("navigate")' /\ anchors' = <<>>)]_vars

C16_Witness ==
  /\ Did("download")
  /\ location = <<"n", "/">>
  /\ Worklist[fetched[Len(fetched)] + 1] = <<"N">>

\* C17: the stored worklist and the stored cursor are there together or not
\* at all, and when they are the worklist is not empty and the cursor lies
\* between 0 and its length.
C17_StorageWellFormed ==
  /\ HasWorklist <=> HasCursor
  /\ HasWorklist => /\ Len(Worklist) >= 1
                    /\ Cursor \in 0..Len(Worklist)

C17_Witness ==
  /\ HasWorklist /\ HasCursor
  /\ Len(Worklist) = 2
  /\ Cursor = 2

\* C18: the text exported is the header line and then, in row order, one
\* line for every body row that has a non-empty cell after its first one;
\* the line holds, column by column, the row's cell for that header (nothing
\* where the row has no such cell); a row with no non-empty cell after its
\* first one gives no line.
C18_OneLinePerNonEmptyRow ==
  exportPc = "downloaded"
    => LET hs == SelectSeq([k \in 1..Len(document.headerCells) |->
                              StripRight(StripLeft(document.headerCells[k]))],
                           LAMBDA text : text # <<>>)
           rest(row) == [k \in 1..(Len(row) - 1) |->
                           StripRight(StripLeft(row[k + 1]))]
           kept == SelectSeq(document.bodyRows,
                             LAMBDA row : \E k \in 1..Len(rest(row)) :
                                            rest(row)[k] # <<>>)
           line(row) == join([j \in 1..Len(hs) |->
                                IF j <= Len(rest(row)) THEN rest(row)[j]
                                ELSE <<>>], <<",">>)
       IN csv = join(<<join(hs, <<",">>)>>
                     \o [k \in 1..Len(kept) |-> line(kept[k])], <<"\n">>)

====
